---- MODULE Spec2Model ----
(***************************************************************************)
(* A model of harupy/fetch-stars: fetch_stars.py (fetch the stargazers of  *)
(* a repository page by page, aggregate them per day and per quarter,      *)
(* write two CSV files and an HTML chart) and plot_stars.py (the same      *)
(* aggregation and chart from a previously saved CSV file).                *)
(*                                                                         *)
(* Strings that the code takes apart (paths, quarter labels, the digits of *)
(* a page number) are sequences of one-character strings.                  *)
(***************************************************************************)
EXTENDS Integers, Sequences, FiniteSets, TLC

\* ------------------------------------------------------------- bounds

\* The largest "last page" number a first response announces.
MaxPageNum == 2
\* The most star records one page of the stargazers listing carries.
MaxPerPage == 2
\* The most links in a link header handed to extract_last_page_num.
MaxLinks == 2
\* The most rows of a previously saved CSV file (plot_stars.py).
MaxLen == 3

\* ------------------------------------------------------------ strings

DigitChars == <<"0", "1", "2", "3", "4", "5", "6", "7", "8", "9">>

DigitVal(c) == (CHOOSE i \in 1..10 : DigitChars[i] = c) - 1

\* str(n) of a non-negative integer: its decimal digits, no padding.
RECURSIVE IntToStr(_)
IntToStr(n) ==
    IF n < 10 THEN <<DigitChars[n + 1]>>
    ELSE IntToStr(n \div 10) \o <<DigitChars[(n % 10) + 1]>>

\* int(s) of a non-empty string of decimal digits.
RECURSIVE ParseInt(_)
ParseInt(s) ==
    IF Len(s) = 1 THEN DigitVal(s[1])
    ELSE 10 * ParseInt(SubSeq(s, 1, Len(s) - 1)) + DigitVal(s[Len(s)])

\* The characters of the quarter labels in code-point order
\* ('-' is 45, the digits are 48..57, 'Q' is 81).
CodePointOrder == <<"-", "0", "1", "2", "3", "4", "5", "6", "7", "8", "9", "Q">>

CharCode(c) == CHOOSE i \in 1..Len(CodePointOrder) : CodePointOrder[i] = c

\* a < b for two strings, as Python compares them: by the first differing
\* character, a proper prefix being smaller.
RECURSIVE StrLess(_, _)
StrLess(a, b) ==
    IF b = <<>> THEN FALSE
    ELSE IF a = <<>> THEN TRUE
    ELSE IF a[1] # b[1] THEN CharCode(a[1]) < CharCode(b[1])
    ELSE StrLess(Tail(a), Tail(b))

\* path.endswith(suffix)
EndsWith(path, suffix) ==
    /\ Len(path) >= Len(suffix)
    /\ SubSeq(path, Len(path) - Len(suffix) + 1, Len(path)) = suffix

LastIndexOf(s, c) ==
    IF \E i \in 1..Len(s) : s[i] = c
    THEN CHOOSE i \in 1..Len(s) : s[i] = c /\ \A j \in (i + 1)..Len(s) : s[j] # c
    ELSE 0

\* os.path.splitext(path): <<base, ext>>. The extension starts at the last
\* dot of the last path component, unless only dots precede that dot there.
splitext(path) ==
    LET sep == LastIndexOf(path, "/")
        dot == LastIndexOf(path, ".")
    IN  IF dot > sep /\ \E k \in (sep + 1)..(dot - 1) : path[k] # "."
        THEN <<SubSeq(path, 1, dot - 1), SubSeq(path, dot, Len(path))>>
        ELSE <<path, <<>>>>

HtmlExt == <<".", "h", "t", "m", "l">>
CsvExt == <<".", "c", "s", "v">>
DailySuffix == <<"d", "a", "i", "l", "y">>
QuarterlySuffix == <<"q", "u", "a", "r", "t", "e", "r", "l", "y">>

\* replace_extension(path, ext), for an ext that starts with "."
replace_extension(path, ext) == splitext(path)[1] \o ext

\* add_suffix(path, suffix) with the default sep "_"
add_suffix(path, suffix) ==
    splitext(path)[1] \o <<"_">> \o suffix \o splitext(path)[2]

\* ------------------------------------------------- the link header

\* The headers of a response as far as the code reads them: whether there is
\* a link header and, if so, its string, a sequence of links. A link is
\* '<URL>; rel="REL"', its URL ending in "?page=DIGITS" or in no page
\* parameter at all (param "", num "").
NoHeader == [present |-> FALSE, link |-> <<>>]

Header(link_str) == [present |-> TRUE, link |-> link_str]

Rels == {"prev", "next", "last", "first"}

PageNumStrs == {IntToStr(n) : n \in 0..MaxPageNum}

Links ==
    [param : {"?page="}, num : PageNumStrs, rel : Rels]
        \cup [param : {""}, num : {<<>>}, rel : Rels]

\* What the pattern \?page=(\d+)> captures in one link: a literal "?page=",
\* one or more digits, the closing ">".
LinkMatches(link) == link.param = "?page=" /\ link.num # <<>>

\* re.findall(r"\?page=(\d+)>", link_str): the captured digit strings, in
\* the order of the links.
RECURSIVE FindAll(_)
FindAll(link_str) ==
    IF link_str = <<>> THEN <<>>
    ELSE (IF LinkMatches(link_str[1]) THEN <<link_str[1].num>> ELSE <<>>)
             \o FindAll(Tail(link_str))

\* A mutant of extract_last_page_num: a default of page 1 when nothing matches.
extract_last_page_num_Default(link_str) ==
    LET found == FindAll(link_str)
    IN  IF found = <<>> THEN [error |-> "", value |-> 1]
        ELSE [error |-> "", value |-> ParseInt(found[Len(found)])]

\* extract_last_page_num(link_str): int(findall(...)[-1]); indexing the
\* empty list raises IndexError.
extract_last_page_num(link_str) ==
    LET found == FindAll(link_str)
    IN  IF found = <<>> THEN [error |-> "IndexError", value |-> 0]
        ELSE [error |-> "", value |-> ParseInt(found[Len(found)])]

\* The link headers extract_last_page_num is tried on: up to MaxLinks links,
\* no relation twice.
LinkHeaders ==
    {h \in UNION {[1..n -> Links] : n \in 0..MaxLinks} :
        \A i, j \in DOMAIN h : i # j => h[i].rel # h[j].rel}

PageLink(n, rel) == [param |-> "?page=", num |-> IntToStr(n), rel |-> rel]

\* The link headers of the first response in a run: none, one without a
\* page parameter, and the first page's 'next, last' for each bound.
FirstLinkHeaders ==
    {NoHeader, Header(<<[param |-> "", num |-> <<>>, rel |-> "next"]>>)}
        \cup {Header(<<PageLink(2, "next"), PageLink(n, "last")>>) : n \in 0..MaxPageNum}

\* ------------------------------------------------------ aggregation

\* column names
STARRED_AT == "starred_at"
STAR_COUNT == "star_count"
CUMULATIVE_STAR_COUNT == "cumulative_star_count"
QUARTER == "quarter"

\* A starred_at string is <<year, month, day, hour>>, the fields of its
\* ISO-8601 text; pd.to_datetime makes a timestamp of it.
to_datetime(s) == [year |-> s[1], month |-> s[2], day |-> s[3], hour |-> s[4]]

\* dt.floor("d")
floor_d(ts) == [ts EXCEPT !.hour = 0]

\* A mutant of quarter: the month divided before it is shifted.
quarter_OffByOne(ts) == (ts.month \div 3) + 1

\* dt.quarter
quarter(ts) == ((ts.month - 1) \div 3) + 1

\* year.astype(str) + "-Q" + quarter.astype(str)
quarter_label(ts) == IntToStr(ts.year) \o <<"-", "Q">> \o IntToStr(quarter(ts))

\* assign_quarter(df): df with the column QUARTER added.
assign_quarter(df) ==
    [i \in DOMAIN df |-> df[i] @@ (QUARTER :> quarter_label(df[i][STARRED_AT]))]

TimeLess(a, b) ==
    \/ a.year < b.year
    \/ a.year = b.year /\ a.month < b.month
    \/ a.year = b.year /\ a.month = b.month /\ a.day < b.day
    \/ a.year = b.year /\ a.month = b.month /\ a.day = b.day /\ a.hour < b.hour

\* The order of the values of column `by`: timestamps by time, labels as
\* strings.
ColumnLess(by, a, b) == IF by = STARRED_AT THEN TimeLess(a, b) ELSE StrLess(a, b)

\* The distinct values of S in ascending order.
RECURSIVE SortedKeys(_, _)
SortedKeys(S, by) ==
    IF S = {} THEN <<>>
    ELSE LET m == CHOOSE x \in S : \A y \in S \ {x} : ColumnLess(by, x, y)
         IN  <<m>> \o SortedKeys(S \ {m}, by)

\* A mutant of GroupSize: a group counted once however many rows it has.
GroupSize_One(keys, k) == 1

\* The size of the group of key k.
GroupSize(keys, k) == Cardinality({i \in DOMAIN keys : keys[i] = k})

\* df.groupby(keys).size().reset_index().rename(columns={0: STAR_COUNT}):
\* one row per distinct key, in ascending key order, with its group's size.
GroupBySize(keys, by) ==
    LET ks == SortedKeys({keys[i] : i \in DOMAIN keys}, by)
    IN  [i \in DOMAIN ks |-> (by :> ks[i]) @@ (STAR_COUNT :> GroupSize(keys, ks[i]))]

\* Insert row r into the sorted rows, after the rows that are not greater.
RECURSIVE Insert(_, _, _)
Insert(rows, r, by) ==
    IF rows = <<>> THEN <<r>>
    ELSE IF ColumnLess(by, r[by], rows[1][by]) THEN <<r>> \o rows
    ELSE <<rows[1]>> \o Insert(Tail(rows), r, by)

\* sort_values(by): the rows in ascending order of column `by`.
RECURSIVE sort_values(_, _)
sort_values(rows, by) ==
    IF rows = <<>> THEN <<>>
    ELSE Insert(sort_values(SubSeq(rows, 1, Len(rows) - 1), by), rows[Len(rows)], by)

\* A mutant of cumsum: the counts themselves, nothing accumulated.
cumsum_None(xs) == xs

\* Series.cumsum()
RECURSIVE cumsum(_)
cumsum(xs) ==
    IF xs = <<>> THEN <<>>
    ELSE LET front == cumsum(SubSeq(xs, 1, Len(xs) - 1))
         IN  Append(front, (IF front = <<>> THEN 0 ELSE front[Len(front)]) + xs[Len(xs)])

\* assign(cumulative_star_count = star_count.cumsum())
assign_cumulative(rows) ==
    LET sums == cumsum([i \in DOMAIN rows |-> rows[i][STAR_COUNT]])
    IN  [i \in DOMAIN rows |-> rows[i] @@ (CUMULATIVE_STAR_COUNT :> sums[i])]

\* daily star count
DailySeries(df) ==
    assign_cumulative(
        sort_values(
            GroupBySize([i \in DOMAIN df |-> floor_d(df[i][STARRED_AT])], STARRED_AT),
            STARRED_AT))

\* quarterly star count
QuarterlySeries(df) ==
    assign_cumulative(
        sort_values(
            GroupBySize([i \in DOMAIN df |-> assign_quarter(df)[i][QUARTER]], QUARTER),
            QUARTER))

\* ------------------------------------------------------- environment

\* The starred_at values of a previously saved CSV file.
Stamps ==
    { <<2022, 4, 5, 9>>, <<2022, 12, 31, 23>>, <<2023, 1, 1, 0>>, <<2023, 1, 1, 23>>,
      <<2023, 3, 31, 12>>, <<2023, 4, 1, 0>>, <<2023, 4, 5, 9>>, <<2023, 10, 1, 0>> }

\* The starred_at values the stargazers listing answers with.
PageStamps == { <<2023, 1, 1, 0>>, <<2023, 4, 5, 9>> }

SeqsUpTo(S, n) == UNION {[1..k -> S] : k \in 0..n}

\* The rows of a CSV file with the one column starred_at.
CsvFiles == SeqsUpTo([starred_at : Stamps], MaxLen)

\* A body: a JSON list (items: its star objects), a JSON object (keys: its
\* keys, in order) or text that is no JSON.
ListBody(items) == [kind |-> "list", items |-> items, keys |-> <<>>]
ErrorBody == [kind |-> "object", items |-> <<>>, keys |-> <<"message", "documentation_url">>]
RateBody == [kind |-> "object", items |-> <<>>, keys |-> <<"resources", "rate">>]
TextBody == [kind |-> "text", items |-> <<>>, keys |-> <<>>]

StarObjects == [starred_at : PageStamps, user : {"user"}]

PageBodies == {ListBody(items) : items \in SeqsUpTo(StarObjects, MaxPerPage)}
                  \cup {ErrorBody, TextBody}

StatusCodes == {200, 403, 502}

\* A response: either the request raised (a timeout, a network failure) or
\* it carries a status, headers and a body.
Raised == [raised |-> TRUE, status |-> 0, headers |-> NoHeader, body |-> TextBody]

Responses(headers, bodies) ==
    {Raised} \cup [raised : {FALSE}, status : StatusCodes, headers : headers, body : bodies]

\* Whether a request failed: it raised, or its status is not a 2xx one.
Failed(resp) == resp.raised \/ resp.status \notin 200..299

FigPaths ==
    { <<"s", ".", "h", "t", "m", "l">>, <<"s", ".", "p", "n", "g">>, <<"s">> }

CsvPaths == { <<"s", ".", "c", "s", "v">> }

\* ------------------------------------------------------------- state

VARIABLES
    entry,          \* which script runs: "fetch_stars" or "plot_stars"
    pc,             \* the statement the run is at; "done", "error" at its end
    error,          \* the exception that ended the run and the statement that raised it
    token_found,    \* whether get_token finds a token
    fig_path,       \* args.fig_path; in plot_stars the local fig_path
    csv_path,       \* the local csv_path; in plot_stars args.csv_path
    headers,        \* the first response's headers
    last_page_num,
    page_num,
    stars,
    df,
    daily,
    quarterly,
    fig,            \* the figure's two traces, <<>> before it is made
    files,          \* the paths of the files written
    requests,       \* the requests issued so far, in order
    pages,          \* the list bodies of the page responses, in order
    http_failed     \* whether some request of the run failed

NoError == [exc |-> "", at |-> ""]

vars ==
    <<entry, pc, error, token_found, fig_path, csv_path, headers, last_page_num,
      page_num, stars, df, daily, quarterly, fig, files, requests, pages, http_failed>>

fetch_vars == <<headers, last_page_num, page_num, stars, requests, pages, http_failed>>
frame_vars == <<df, daily, quarterly, fig, files>>
arg_vars == <<entry, token_found, fig_path, csv_path>>

Init ==
    /\ entry \in {"fetch_stars", "plot_stars"}
    /\ pc = IF entry = "fetch_stars" THEN "get_token" ELSE "read_csv"
    /\ error = NoError
    /\ token_found \in IF entry = "fetch_stars" THEN BOOLEAN ELSE {FALSE}
    /\ fig_path \in IF entry = "fetch_stars" THEN FigPaths ELSE {<<>>}
    /\ csv_path \in IF entry = "plot_stars" THEN CsvPaths ELSE {<<>>}
    /\ headers = NoHeader
    /\ last_page_num = 0
    /\ page_num = 0
    /\ stars = <<>>
    /\ df = <<>>
    /\ daily = <<>>
    /\ quarterly = <<>>
    /\ fig = <<>>
    /\ files = {}
    /\ requests = <<>>
    /\ pages = <<>>
    /\ http_failed = FALSE

\* An exception propagates out of main: the run ends.
Raise(exc) == pc' = "error" /\ error' = [exc |-> exc, at |-> pc]

Request(end_point, page) == [end_point |-> end_point, page |-> page]

\* ------------------------------------------------ fetch_stars.fetch_stars

\* token = get_token(); api = GitHubApi(token)
GetToken ==
    /\ pc = "get_token"
    /\ \/ token_found /\ pc' = "first_request" /\ error' = error
       \/ ~token_found /\ Raise("Exception")
    /\ UNCHANGED <<arg_vars, fetch_vars, frame_vars>>

\* resp = api.get(stargazers_end_point)
FirstRequest ==
    /\ pc = "first_request"
    /\ \E resp \in Responses(FirstLinkHeaders, {TextBody}) :
        /\ requests' = Append(requests, Request("stargazers", 0))
        /\ http_failed' = (http_failed \/ Failed(resp))
        /\ \/ resp.raised /\ Raise("ConnectionError") /\ headers' = headers
           \/ ~resp.raised /\ pc' = "extract" /\ error' = error
                /\ headers' = resp.headers
    /\ UNCHANGED <<arg_vars, last_page_num, page_num, stars, pages, frame_vars>>

\* last_page_num = extract_last_page_num(resp.headers["link"]); stars = []
ExtractBound ==
    /\ pc = "extract"
    /\ \/ ~headers.present /\ Raise("KeyError") /\ last_page_num' = last_page_num
       \/ /\ headers.present
          /\ extract_last_page_num(headers.link).error # ""
          /\ Raise(extract_last_page_num(headers.link).error)
          /\ last_page_num' = last_page_num
       \/ /\ headers.present
          /\ extract_last_page_num(headers.link).error = ""
          /\ last_page_num' = extract_last_page_num(headers.link).value
          /\ pc' = "loop" /\ error' = error
    /\ UNCHANGED <<arg_vars, headers, page_num, stars, requests, pages, http_failed,
                   frame_vars>>

\* A mutant of HasNext: range(1, last_page_num) for range(1, last_page_num + 1).
HasNext_OffByOne(n, last) == n + 1 < last

\* Whether range(1, last + 1) has a value after n (0: none taken yet).
HasNext(n, last) == n < last

\* for page_num in range(1, last_page_num + 1): ... ; return stars
ForPage ==
    /\ pc = "loop"
    /\ \/ HasNext(page_num, last_page_num)
            /\ page_num' = page_num + 1 /\ pc' = "rate_limit"
       \/ ~HasNext(page_num, last_page_num)
            /\ page_num' = page_num /\ pc' = "frame"
    /\ UNCHANGED <<arg_vars, error, headers, last_page_num, stars, requests, pages,
                   http_failed, frame_vars>>

\* rate_limit_resp = api.get("/rate_limit"); print(..., rate_limit_resp.json()["rate"])
RateLimitRequest ==
    /\ pc = "rate_limit"
    /\ \E resp \in Responses({NoHeader}, {RateBody, ErrorBody, TextBody}) :
        /\ requests' = Append(requests, Request("rate_limit", 0))
        /\ http_failed' = (http_failed \/ Failed(resp))
        /\ \/ resp.raised /\ Raise("ConnectionError")
           \/ ~resp.raised /\ resp.body.kind = "text" /\ Raise("JSONDecodeError")
           \/ /\ ~resp.raised /\ resp.body.kind = "object"
              /\ \A i \in DOMAIN resp.body.keys : resp.body.keys[i] # "rate"
              /\ Raise("KeyError")
           \/ /\ ~resp.raised /\ resp.body.kind = "object"
              /\ \E i \in DOMAIN resp.body.keys : resp.body.keys[i] = "rate"
              /\ pc' = "page" /\ error' = error
    /\ UNCHANGED <<arg_vars, headers, last_page_num, page_num, stars, pages, frame_vars>>

\* stars_resp = api.get(stargazers_end_point, params={"page": page_num})
\* stars.extend(map(lambda x: {"starred_at": x["starred_at"]}, stars_resp.json()))
PageRequest ==
    /\ pc = "page"
    /\ \E resp \in Responses({NoHeader}, PageBodies) :
        /\ requests' = Append(requests, Request("stargazers", page_num))
        /\ http_failed' = (http_failed \/ Failed(resp))
        /\ \/ resp.raised /\ Raise("ConnectionError") /\ UNCHANGED <<stars, pages>>
           \/ /\ ~resp.raised /\ resp.body.kind = "text"
              /\ Raise("JSONDecodeError") /\ UNCHANGED <<stars, pages>>
           \/ /\ ~resp.raised /\ resp.body.kind = "object" /\ resp.body.keys # <<>>
              /\ Raise("TypeError") /\ UNCHANGED <<stars, pages>>
           \/ /\ ~resp.raised /\ resp.body.kind = "list"
              /\ stars' = stars \o [i \in DOMAIN resp.body.items |->
                                       [starred_at |-> resp.body.items[i].starred_at]]
              /\ pages' = Append(pages, resp.body.items)
              /\ pc' = "loop" /\ error' = error
    /\ UNCHANGED <<arg_vars, headers, last_page_num, page_num, frame_vars>>

\* ------------------------------------------------------ fetch_stars.main

\* df = pd.DataFrame(records); df.assign(starred_at = pd.to_datetime(df[STARRED_AT])):
\* the frame of an empty list has no column, and df[STARRED_AT] raises KeyError.
Frame(records) ==
    IF records = <<>> THEN [error |-> "KeyError", rows |-> <<>>]
    ELSE [error |-> "",
          rows |-> [i \in DOMAIN records |->
                       [starred_at |-> to_datetime(records[i].starred_at)]]]

\* stars = fetch_stars(...) has returned; df = pd.DataFrame(stars)
\* csv_path = replace_extension(args.fig_path, ".csv"); df = df.assign(...)
BuildFrame ==
    /\ pc = "frame"
    /\ entry = "fetch_stars"
    /\ csv_path' = replace_extension(fig_path, CsvExt)
    /\ IF Frame(stars).error # ""
       THEN Raise(Frame(stars).error) /\ df' = df
       ELSE df' = Frame(stars).rows /\ pc' = "daily" /\ error' = error
    /\ UNCHANGED <<entry, token_found, fig_path, fetch_vars, daily, quarterly, fig, files>>

\* daily = (...); daily.to_csv(add_suffix(csv_path, "daily"), index=False)
Daily ==
    /\ pc = "daily"
    /\ entry = "fetch_stars"
    /\ daily' = DailySeries(df)
    /\ files' = files \cup {add_suffix(csv_path, DailySuffix)}
    /\ pc' = "quarterly"
    /\ UNCHANGED <<arg_vars, error, fetch_vars, df, quarterly, fig>>

\* quarterly = (...); quarterly.to_csv(add_suffix(csv_path, "quarterly"), index=False)
Quarterly ==
    /\ pc = "quarterly"
    /\ entry = "fetch_stars"
    /\ quarterly' = QuarterlySeries(df)
    /\ files' = files \cup {add_suffix(csv_path, QuarterlySuffix)}
    /\ pc' = "plots"
    /\ UNCHANGED <<arg_vars, error, fetch_vars, df, daily, fig>>

\* go.Scatter(x=frame[x_column], y=frame[CUMULATIVE_STAR_COUNT], ...)
Scatter(frame, x_column) ==
    [x |-> [i \in DOMAIN frame |-> frame[i][x_column]],
     y |-> [i \in DOMAIN frame |-> frame[i][CUMULATIVE_STAR_COUNT]]]

\* fig = make_subplots(rows=2, cols=1, ...); fig.add_trace(...) twice
make_figure(daily_frame, quarterly_frame) ==
    <<Scatter(daily_frame, STARRED_AT), Scatter(quarterly_frame, QUARTER)>>

\* create plots
CreatePlots ==
    /\ pc = "plots"
    /\ entry = "fetch_stars"
    /\ fig' = make_figure(daily, quarterly)
    /\ pc' = "save"
    /\ UNCHANGED <<arg_vars, error, fetch_vars, df, daily, quarterly, files>>

\* save_plotly_figure(fig, path): a path that is no .html one raises
\* ValueError; otherwise plotly writes the file.
save_plotly_figure(path) ==
    IF ~EndsWith(path, HtmlExt)
    THEN Raise("ValueError") /\ files' = files
    ELSE files' = files \cup {path} /\ pc' = "done" /\ error' = error

\* save_plotly_figure(fig, args.fig_path)
SaveFigure ==
    /\ pc = "save"
    /\ entry = "fetch_stars"
    /\ save_plotly_figure(fig_path)
    /\ UNCHANGED <<arg_vars, fetch_vars, df, daily, quarterly, fig>>

\* -------------------------------------------------------- plot_stars.main

\* df = pd.read_csv(args.csv_path); df = df.assign(starred_at = pd.to_datetime(...)):
\* a file that is not there raises; a file with the header line alone gives
\* an empty frame that has the column.
ReadCsv ==
    /\ pc = "read_csv"
    /\ entry = "plot_stars"
    /\ \/ Raise("FileNotFoundError") /\ df' = df
       \/ \E rows \in CsvFiles :
            /\ df' = [i \in DOMAIN rows |-> [starred_at |-> to_datetime(rows[i].starred_at)]]
            /\ pc' = "daily" /\ error' = error
    /\ UNCHANGED <<arg_vars, fetch_vars, daily, quarterly, fig, files>>

\* daily = (...); daily.to_csv(add_suffix(args.csv_path, "daily"), index=False)
PlotDaily ==
    /\ pc = "daily"
    /\ entry = "plot_stars"
    /\ daily' = DailySeries(df)
    /\ files' = files \cup {add_suffix(csv_path, DailySuffix)}
    /\ pc' = "quarterly"
    /\ UNCHANGED <<arg_vars, error, fetch_vars, df, quarterly, fig>>

\* quarterly = (...); quarterly.to_csv(add_suffix(args.csv_path, "quarterly"), index=False)
PlotQuarterly ==
    /\ pc = "quarterly"
    /\ entry = "plot_stars"
    /\ quarterly' = QuarterlySeries(df)
    /\ files' = files \cup {add_suffix(csv_path, QuarterlySuffix)}
    /\ pc' = "plots"
    /\ UNCHANGED <<arg_vars, error, fetch_vars, df, daily, fig>>

\* create plots
PlotCreatePlots ==
    /\ pc = "plots"
    /\ entry = "plot_stars"
    /\ fig' = make_figure(daily, quarterly)
    /\ pc' = "save"
    /\ UNCHANGED <<arg_vars, error, fetch_vars, df, daily, quarterly, files>>

\* fig_path = replace_extension(args.csv_path, ".html"); save_plotly_figure(fig, fig_path)
PlotSaveFigure ==
    /\ pc = "save"
    /\ entry = "plot_stars"
    /\ fig_path' = replace_extension(csv_path, HtmlExt)
    /\ save_plotly_figure(fig_path')
    /\ UNCHANGED <<entry, token_found, csv_path, fetch_vars, df, daily, quarterly, fig>>

\* ----------------------------------------------------- specifications

Next ==
    \/ GetToken
    \/ FirstRequest
    \/ ExtractBound
    \/ ForPage
    \/ RateLimitRequest
    \/ PageRequest
    \/ BuildFrame
    \/ Daily
    \/ Quarterly
    \/ CreatePlots
    \/ SaveFigure
    \/ ReadCsv
    \/ PlotDaily
    \/ PlotQuarterly
    \/ PlotCreatePlots
    \/ PlotSaveFigure

\* A run of either script.
Spec == Init /\ [][Next]_vars

\* extract_last_page_num on every link header of the bounded set: the state
\* after the first response has arrived, then the extraction.
InitExtract ==
    /\ entry = "fetch_stars"
    /\ pc = "extract"
    /\ error = NoError
    /\ token_found = TRUE
    /\ fig_path = <<"s", ".", "h", "t", "m", "l">>
    /\ csv_path = <<>>
    /\ headers \in {NoHeader} \cup {Header(h) : h \in LinkHeaders}
    /\ last_page_num = 0
    /\ page_num = 0
    /\ stars = <<>>
    /\ df = <<>>
    /\ daily = <<>>
    /\ quarterly = <<>>
    /\ fig = <<>>
    /\ files = {}
    /\ requests = <<Request("stargazers", 0)>>
    /\ pages = <<>>
    /\ http_failed = FALSE

NextExtract == ExtractBound

ExtractSpec == InitExtract /\ [][NextExtract]_vars

\* ------------------------------------------------------------- claims

FetchRun == entry = "fetch_stars"

\* fetch_stars has returned its list to main.
Returned ==
    /\ FetchRun
    /\ \/ pc \in {"frame", "daily", "quarterly", "plots", "save", "done"}
       \/ pc = "error" /\ error.at \in {"frame", "save"}

\* The run has ended.
Ended == pc \in {"done", "error"}

DailyCsv == add_suffix(replace_extension(fig_path, CsvExt), DailySuffix)
QuarterlyCsv == add_suffix(replace_extension(fig_path, CsvExt), QuarterlySuffix)

\* C1: every run of fetch_stars.main ends either with the daily CSV, the
\* quarterly CSV and the chart all written, or with an error and none of
\* them written; and no file is written before the fetch and both
\* aggregations have finished.
C1_AllOrNothing ==
    FetchRun =>
        /\ Ended =>
              \/ pc = "done" /\ files = {DailyCsv, QuarterlyCsv, fig_path}
              \/ pc = "error" /\ files = {}
        /\ files # {} =>
              \/ pc \in {"plots", "save", "done"}
              \/ pc = "error" /\ error.at = "save"

\* C2: a chart path that does not end in ".html" is rejected before any
\* request is issued, before any aggregation or figure construction and
\* before any file is written, and the run does not complete.
C2_ValidatedFirst ==
    (FetchRun /\ ~EndsWith(fig_path, HtmlExt)) =>
        /\ requests = <<>>
        /\ df = <<>> /\ daily = <<>> /\ quarterly = <<>> /\ fig = <<>>
        /\ files = {}
        /\ pc # "done"

\* The event list handed to the aggregation is empty.
EmptyEventList ==
    \/ Returned /\ stars = <<>>
    \/ /\ entry = "plot_stars" /\ df = <<>>
       /\ pc \in {"daily", "quarterly", "plots", "save", "done"}

\* C3: with an empty event list no error is raised, and the daily and the
\* quarterly series are empty.
C3_EmptyInputEmptySeries ==
    EmptyEventList => pc # "error" /\ daily = <<>> /\ quarterly = <<>>

\* C4: once a request of the run has failed (it raised, or its status is
\* not a 2xx one), fetch_stars never returns a list, the run does not
\* complete and no output file is written.
C4_FailureIsFatal ==
    (FetchRun /\ http_failed) => ~Returned /\ pc # "done" /\ files = {}

\* The requests of a fetch with bound n: the initial one, then for each page
\* 1..n a rate-limit query followed by the page.
ExpectedRequests(n) ==
    <<Request("stargazers", 0)>> \o
        [i \in 1..(2 * n) |->
            IF i % 2 = 1 THEN Request("rate_limit", 0)
            ELSE Request("stargazers", i \div 2)]

IsPrefix(a, b) == Len(a) <= Len(b) /\ SubSeq(b, 1, Len(a)) = a

RECURSIVE TotalLen(_)
TotalLen(ps) == IF ps = <<>> THEN 0 ELSE Len(ps[1]) + TotalLen(Tail(ps))

\* C5: after the initial request the requests are rate-limit query, page 1,
\* ..., rate-limit query, page N; the loop variable stays within 1..N; and
\* the list returned is the pages' records in page order and, within a
\* page, in response order.
C5_RequestSequence ==
    FetchRun =>
        /\ pc \in {"rate_limit", "page"} => page_num \in 1..last_page_num
        /\ requests # <<>> => IsPrefix(requests, ExpectedRequests(last_page_num))
        /\ Returned =>
              /\ requests = ExpectedRequests(last_page_num)
              /\ Len(pages) = last_page_num
              /\ Len(stars) = TotalLen(pages)
              /\ \A p \in DOMAIN pages : \A k \in DOMAIN pages[p] :
                    stars[TotalLen(SubSeq(pages, 1, p - 1)) + k].starred_at
                        = pages[p][k].starred_at

C5_Witness ==
    /\ Returned /\ last_page_num = 2
    /\ Len(pages[1]) = 2 /\ Len(pages[2]) = 1
    /\ pages[1][1] # pages[1][2]

\* The extraction has run.
Extracted == pc \in {"loop", "error"}

\* C6: for every link header with a link whose relation is "last", the
\* extraction yields the integer after "page=" in that link, whatever the
\* other links and their order; a header with no "page=" parameter fails.
C6_ExtractsLastRel ==
    (Extracted /\ headers.present) =>
        /\ \A i \in DOMAIN headers.link :
              (headers.link[i].rel = "last" /\ headers.link[i].num # <<>>) =>
                  pc = "loop" /\ last_page_num = ParseInt(headers.link[i].num)
        /\ (\A i \in DOMAIN headers.link : headers.link[i].param = "") =>
              pc = "error"

\* The first response has arrived and no page number can be extracted from
\* its headers: there is no link header, or none of its links ends in
\* "?page=" and digits.
NoBound ==
    /\ FetchRun
    /\ requests # <<>>
    /\ ~(pc = "error" /\ error.at = "first_request")
    /\ \/ ~headers.present
       \/ \A i \in DOMAIN headers.link :
            ~(headers.link[i].param = "?page=" /\ headers.link[i].num # <<>>)

\* C7: with no link header, or one that yields no page number, the run
\* aborts at the bound extraction: no further request, no list, no file.
C7_NoBoundAborts ==
    NoBound =>
        /\ pc \in {"extract", "error"}
        /\ pc = "error" => error.at = "extract" /\ error.exc \in {"KeyError", "IndexError"}
        /\ requests = <<Request("stargazers", 0)>>
        /\ stars = <<>> /\ df = <<>>
        /\ files = {}

C7_Witness == NoBound /\ pc = "error" /\ ~headers.present /\ error.exc = "KeyError"

RECURSIVE SumTo(_, _)
SumTo(rows, i) == IF i = 0 THEN 0 ELSE rows[i].star_count + SumTo(rows, i - 1)

\* The year and quarter a label "YYYY-Qn" names, as one number.
LabelTime(label) == 4 * ParseInt(SubSeq(label, 1, 4)) + ParseInt(<<label[7]>>)

DayTime(ts) == (ts.year * 12 + ts.month) * 31 + ts.day

CumulativeOk(rows) ==
    \A i \in DOMAIN rows :
        /\ rows[i].cumulative_star_count = SumTo(rows, i)
        /\ i > 1 => rows[i - 1].cumulative_star_count <= rows[i].cumulative_star_count

\* C8: in both series the rows are in strictly ascending order of the bucket
\* key, the quarterly labels in string order and thereby in chronological
\* order, and the cumulative count of row i is the sum of the counts of
\* rows 0..i, so the cumulative column never decreases.
C8_SortedCumulative ==
    /\ \A i, j \in DOMAIN daily :
          i < j => DayTime(daily[i].starred_at) < DayTime(daily[j].starred_at)
    /\ \A i, j \in DOMAIN quarterly :
          i < j => /\ StrLess(quarterly[i].quarter, quarterly[j].quarter)
                   /\ Len(quarterly[i].quarter) = 7
                   /\ LabelTime(quarterly[i].quarter) < LabelTime(quarterly[j].quarter)
    /\ CumulativeOk(daily)
    /\ CumulativeOk(quarterly)

C8_Witness ==
    /\ pc = "done"
    /\ Len(daily) = 3
    /\ Len(quarterly) = 2
    /\ daily[1].star_count = 1
    /\ SubSeq(quarterly[1].quarter, 1, 4) # SubSeq(quarterly[2].quarter, 1, 4)

DailyMade == pc \in {"quarterly", "plots", "save", "done"} \/ (pc = "error" /\ error.at = "save")
QuarterlyMade == pc \in {"plots", "save", "done"} \/ (pc = "error" /\ error.at = "save")

TotalOk(rows) ==
    /\ SumTo(rows, Len(rows)) = Len(df)
    /\ rows # <<>> => rows[Len(rows)].cumulative_star_count = Len(df)

\* C9: in both series the counts add up to the number of input events, which
\* is also the last cumulative count: nothing dropped, nothing counted twice.
C9_CountsAddUp ==
    /\ FetchRun /\ pc \notin {"get_token", "first_request", "extract", "loop",
                             "rate_limit", "page", "frame", "error"}
          => Len(df) = Len(stars)
    /\ DailyMade => TotalOk(daily)
    /\ QuarterlyMade => TotalOk(quarterly)

C9_Witness ==
    /\ FetchRun /\ pc = "done"
    /\ Len(stars) = 3 /\ Len(daily) = 2 /\ Len(quarterly) = 2
    /\ daily[2].cumulative_star_count = 3

QuarterOfMonth == <<1, 1, 1, 2, 2, 2, 3, 3, 3, 4, 4, 4>>

SameDay(a, b) == a.year = b.year /\ a.month = b.month /\ a.day = b.day

LabelOf(ts) == IntToStr(ts.year) \o <<"-", "Q">> \o <<DigitChars[QuarterOfMonth[ts.month] + 1]>>

Example == <<[starred_at |-> to_datetime(<<2023, 1, 1, 0>>)],
             [starred_at |-> to_datetime(<<2023, 1, 1, 23>>)],
             [starred_at |-> to_datetime(<<2023, 4, 5, 9>>)]>>

Row(by, key, n, total) ==
    (by :> key) @@ (STAR_COUNT :> n) @@ (CUMULATIVE_STAR_COUNT :> total)

\* C10: the daily series has exactly one row per calendar day among the
\* events and the quarterly series one row per label "{year}-Q{quarter}",
\* each with the number of events of its bucket; events 2023-01-01,
\* 2023-01-01, 2023-04-05 give (2023-01-01, 2, 2), (2023-04-05, 1, 3) and
\* ("2023-Q1", 2, 2), ("2023-Q2", 1, 3).
C10_OneRowPerBucket ==
    /\ DailyMade =>
          /\ \A e \in DOMAIN df : \E i \in DOMAIN daily :
                SameDay(daily[i].starred_at, df[e].starred_at)
          /\ \A i \in DOMAIN daily :
                /\ daily[i].starred_at.hour = 0
                /\ daily[i].star_count =
                      Cardinality({e \in DOMAIN df :
                                      SameDay(df[e].starred_at, daily[i].starred_at)})
                /\ daily[i].star_count > 0
                /\ \A j \in DOMAIN daily :
                      i # j => ~SameDay(daily[i].starred_at, daily[j].starred_at)
    /\ QuarterlyMade =>
          /\ \A e \in DOMAIN df : \E i \in DOMAIN quarterly :
                quarterly[i].quarter = LabelOf(df[e].starred_at)
          /\ \A i \in DOMAIN quarterly :
                /\ quarterly[i].star_count =
                      Cardinality({e \in DOMAIN df :
                                      LabelOf(df[e].starred_at) = quarterly[i].quarter})
                /\ quarterly[i].star_count > 0
                /\ \A j \in DOMAIN quarterly :
                      i # j => quarterly[i].quarter # quarterly[j].quarter
    /\ (QuarterlyMade /\ df = Example) =>
          /\ daily = <<Row(STARRED_AT, to_datetime(<<2023, 1, 1, 0>>), 2, 2),
                       Row(STARRED_AT, to_datetime(<<2023, 4, 5, 0>>), 1, 3)>>
          /\ quarterly = <<Row(QUARTER, <<"2", "0", "2", "3", "-", "Q", "1">>, 2, 2),
                           Row(QUARTER, <<"2", "0", "2", "3", "-", "Q", "2">>, 1, 3)>>

C10_Witness == pc = "done" /\ df = Example /\ Len(daily) = 2 /\ Len(quarterly) = 2

====
